---- MODULE Spec2Model ----
(***************************************************************************)
(* State-machine model of the interchain test harness core:                *)
(*   - PollForAck, the height-bounded acknowledgement poller;              *)
(*   - PenumbraClientNode.SendFunds / SendIBCTransfer, the four-stage      *)
(*     plan -> authorize -> build-and-sign -> broadcast pipeline;          *)
(*   - PenumbraClientNode.GetBalance and the hi/lo amount translation;     *)
(*   - PenumbraAppNode: key creation and recovery, address resolution,     *)
(*     GenerateGenesisFile, and the container lifecycle with its cached    *)
(*     host ports.                                                         *)
(* Each component has its own specification over the shared variables.     *)
(***************************************************************************)
EXTENDS Integers, Sequences, FiniteSets, TLC

(***************************************************************************)
(* Bounds.                                                                 *)
(***************************************************************************)
\* Largest value of the poller's unsigned height type (stands for 2^64 - 1);
\* heights are 0..MaxUint64 and cursor arithmetic is modulo MaxUint64 + 1.
MaxUint64 == 3

\* Number of SendFunds / SendIBCTransfer calls that run concurrently.
NumCalls == 2

\* Largest number of records a balance stream delivers before it ends.
MaxStream == 2

VARIABLES
    \* ---- PollForAck: arguments and environment
    startHeight,      \* argument startHeight
    maxHeight,        \* argument maxHeight
    chainAcks,        \* ledger: height -> acknowledgements stored at it
    chainHeight,      \* ledger: current height
    cancelled,        \* ctx: TRUE once the caller has cancelled
    \* ---- PollForAck: locals and position
    pc,               \* "entry" | "loop" | "check" | "fetch" | "done" | "panic"
    cursor,
    lastErr,
    curHeight,        \* height read in the current iteration
    ret,              \* returned (ack, error) pair
    retAt,            \* source line of the return statement taken
    \* ---- PollForAck: observation of the run
    failedAt,         \* heights whose acknowledgement fetch returned an error
    fetchedAt,        \* heights whose acknowledgement fetch was attempted
    itersAtCeiling,   \* iterations begun with the ledger at or above maxHeight
    itersSinceCancel, \* iterations begun after the caller cancelled
    lastCall,         \* the latest call of a ledger accessor and its error
    \* ---- PenumbraClientNode: the node structs and the send calls in flight
    nodes,            \* node -> fields of the PenumbraClientNode struct
    calls,            \* call -> arguments, locals, position and RPC record
    \* ---- PenumbraClientNode.GetBalance
    bal,              \* argument, locals, position and result of one call
    \* ---- translateBigInt / translateHiAndLo
    xl,               \* one conversion there and back: input, halves, result
    \* ---- PenumbraAppNode and the container lifecycle of both node kinds
    volume,           \* the node's volume: wallets by data directory, files
    containers,       \* node kind -> container state and cached host ports
    op,               \* the node operation in progress or just completed
    prevOp            \* the operation completed before it

pollVars == <<startHeight, maxHeight, chainAcks, chainHeight, cancelled, pc,
              cursor, lastErr, curHeight, ret, retAt, failedAt, fetchedAt,
              itersAtCeiling, itersSinceCancel, lastCall>>

sendVars == <<nodes, calls>>

balVars == <<bal>>

xlVars == <<xl>>

appVars == <<volume, containers, op, prevOp>>

vars == <<pollVars, sendVars, balVars, xlVars, appVars>>

(***************************************************************************)
(* Values.                                                                 *)
(***************************************************************************)
Heights == 0..MaxUint64

\* Variant: the cursor is advanced twice.
IncrTwice(x) == (x + 2) % (MaxUint64 + 1)

\* uint64 increment (cursor++): wraps to 0 past the largest value.
Incr(x) == (x + 1) % (MaxUint64 + 1)

TargetPacket == "packetA"
OtherPacket  == "packetB"

Ack(p, a) == [packet |-> p, ack |-> a]
ZeroAck   == Ack("", "")

\* ibc.Packet.Equal: structural equality of two packets.
PacketEqual(p, q) == p = q

\* Contents a ledger may hold at one height: nothing, or a list in which an
\* unrelated acknowledgement precedes two that match the target packet.
AckLists ==
    { << >>,
      << Ack(OtherPacket, "b"), Ack(TargetPacket, "a2"), Ack(TargetPacket, "a1") >> }

NilErr      == [kind |-> "nil",      at |-> 0]
NotFoundErr == [kind |-> "notfound", at |-> 0]   \* errors.New("acknowledgement not found")
HeightErr   == [kind |-> "height",   at |-> 0]   \* error of chain.Height
CtxErr      == [kind |-> "canceled", at |-> 0]   \* ctx.Err() surfaced by an accessor
FetchErr(h) == [kind |-> "fetch",    at |-> h]   \* error of chain.Acknowledgements at h

NoRet == [kind |-> "none", ack |-> ZeroAck, err |-> NilErr]
RetAck(a) == [kind |-> "ack", ack |-> a, err |-> NilErr]

\* Variant: every error return reports "acknowledgement not found".
RetNotFound(e) == [kind |-> "err", ack |-> ZeroAck, err |-> NotFoundErr]

RetErr(e) == [kind |-> "err", ack |-> ZeroAck, err |-> e]

Min(a, b) == IF a < b THEN a ELSE b

\* A call of chain.Height or chain.Acknowledgements and the error it returned.
NoCall             == [fn |-> "none",             at |-> 0, err |-> NilErr]
HeightCall(e)      == [fn |-> "Height",           at |-> 0, err |-> e]
AcksCall(h, e)     == [fn |-> "Acknowledgements", at |-> h, err |-> e]

(***************************************************************************)
(* PollForAck.                                                             *)
(***************************************************************************)
\* Indices of the entries of acks whose packet equals the target.
MatchIdx(acks, packet) ==
    { i \in 1..Len(acks) : PacketEqual(packet, acks[i].packet) }

\* The range loop over acks: the first entry, in list order, that matches.
FirstMatch(acks, packet) ==
    LET idx == MatchIdx(acks, packet)
    IN  acks[CHOOSE i \in idx : \A j \in idx : i <= j]

HasMatch(acks, packet) == MatchIdx(acks, packet) # {}

\* Variant: the loop stops one height short of maxHeight.
LoopCondExclusive(c, mx) == c < mx

\* Loop condition of the polling loop.
LoopCond(c, mx) == c <= mx

\* Variant: a block is taken to exist only once the ledger is past it.
NotYetAtHeightInclusive(c, cur) == c >= cur

\* Variant: the poller never waits for a block.
NotYetAtHeightNever(c, cur) == FALSE

\* The "not yet at height" test.
NotYetAtHeight(c, cur) == c > cur

\* Variant: the first fetch error is the one kept.
RememberFirst(old, err) == IF old = NilErr THEN err ELSE old

\* lastErr = err: the error of the latest failed fetch replaces the one held.
Remember(old, err) == err

\* Errors the height accessor may return: its own, or the context's once the
\* caller has cancelled.
HeightErrs == {HeightErr} \cup (IF cancelled THEN {CtxErr} ELSE {})

PollInit ==
    /\ startHeight \in Heights
    /\ maxHeight \in Heights
    /\ chainAcks \in [Heights -> AckLists]
    /\ chainHeight = 0
    /\ cancelled = FALSE
    /\ pc = "entry"
    /\ cursor = 0
    /\ lastErr = NilErr
    /\ curHeight = 0
    /\ ret = NoRet
    /\ retAt = "none"
    /\ failedAt = {}
    /\ fetchedAt = {}
    /\ itersAtCeiling = 0
    /\ itersSinceCancel = 0
    /\ lastCall = NoCall

\* Variant: the entry test tolerates a ceiling one below the start.
BadRangeOffByOne(start, mx) == mx + 1 < start

\* The entry test "if maxHeight < startHeight".
BadRange(start, mx) == mx < start

\* Entry test: maxHeight < startHeight panics.
PollPanic ==
    /\ pc = "entry"
    /\ BadRange(startHeight, maxHeight)
    /\ pc' = "panic"
    /\ ret' = [kind |-> "panic", ack |-> ZeroAck, err |-> NilErr]
    /\ retAt' = "L38"
    /\ UNCHANGED <<sendVars, balVars, xlVars, appVars, startHeight, maxHeight, chainAcks, chainHeight, cancelled,
                   cursor, lastErr, curHeight, failedAt, fetchedAt,
                   itersAtCeiling, itersSinceCancel, lastCall>>

\* Entry: cursor = startHeight, lastErr = nil.
PollEnter ==
    /\ pc = "entry"
    /\ ~BadRange(startHeight, maxHeight)
    /\ cursor' = startHeight
    /\ lastErr' = NilErr
    /\ pc' = "loop"
    /\ UNCHANGED <<sendVars, balVars, xlVars, appVars, startHeight, maxHeight, chainAcks, chainHeight, cancelled,
                   curHeight, ret, retAt, failedAt, fetchedAt,
                   itersAtCeiling, itersSinceCancel, lastCall>>

\* Bookkeeping common to every iteration that passes the loop condition.
IterBegins ==
    /\ itersAtCeiling' =
          IF chainHeight >= maxHeight
          THEN Min(itersAtCeiling + 1, maxHeight - startHeight + 2)
          ELSE itersAtCeiling
    /\ itersSinceCancel' =
          IF cancelled THEN Min(itersSinceCancel + 1, 2) ELSE itersSinceCancel

\* chain.Height fails: return the error at once.
HeightFails ==
    /\ pc = "loop"
    /\ LoopCond(cursor, maxHeight)
    /\ \E e \in HeightErrs :
          /\ ret' = RetErr(e)
          /\ retAt' = "L48"
          /\ lastCall' = HeightCall(e)
    /\ pc' = "done"
    /\ IterBegins
    /\ UNCHANGED <<sendVars, balVars, xlVars, appVars, startHeight, maxHeight, chainAcks, chainHeight, cancelled,
                   cursor, lastErr, curHeight, failedAt, fetchedAt>>

\* chain.Height succeeds: curHeight holds the ledger's height.
HeightOk ==
    /\ pc = "loop"
    /\ LoopCond(cursor, maxHeight)
    /\ curHeight' = chainHeight
    /\ pc' = "check"
    /\ IterBegins
    /\ lastCall' = HeightCall(NilErr)
    /\ UNCHANGED <<sendVars, balVars, xlVars, appVars, startHeight, maxHeight, chainAcks, chainHeight, cancelled,
                   cursor, lastErr, ret, retAt, failedAt, fetchedAt>>

\* The cursor is above the height just read: continue without advancing.
HeightWaits ==
    /\ pc = "check"
    /\ NotYetAtHeight(cursor, curHeight)
    /\ curHeight' = 0
    /\ pc' = "loop"
    /\ UNCHANGED <<sendVars, balVars, xlVars, appVars, startHeight, maxHeight, chainAcks, chainHeight, cancelled,
                   cursor, lastErr, ret, retAt, failedAt, fetchedAt,
                   itersAtCeiling, itersSinceCancel, lastCall>>

\* The cursor's block exists: go on to the fetch.
HeightReady ==
    /\ pc = "check"
    /\ ~NotYetAtHeight(cursor, curHeight)
    /\ pc' = "fetch"
    /\ UNCHANGED <<sendVars, balVars, xlVars, appVars, startHeight, maxHeight, chainAcks, chainHeight, cancelled,
                   cursor, lastErr, curHeight, ret, retAt, failedAt, fetchedAt,
                   itersAtCeiling, itersSinceCancel, lastCall>>

\* chain.Acknowledgements fails: remember the error, advance, continue.
FetchFails ==
    /\ pc = "fetch"
    /\ lastErr' = Remember(lastErr, FetchErr(cursor))
    /\ cursor' = Incr(cursor)
    /\ failedAt' = failedAt \cup {cursor}
    /\ fetchedAt' = fetchedAt \cup {cursor}
    /\ curHeight' = 0
    /\ pc' = "loop"
    /\ lastCall' = AcksCall(cursor, FetchErr(cursor))
    /\ UNCHANGED <<sendVars, balVars, xlVars, appVars, startHeight, maxHeight, chainAcks, chainHeight, cancelled,
                   ret, retAt, itersAtCeiling, itersSinceCancel>>

\* chain.Acknowledgements succeeds and an entry matches: return it.
FetchMatch ==
    /\ pc = "fetch"
    /\ HasMatch(chainAcks[cursor], TargetPacket)
    /\ ret' = RetAck(FirstMatch(chainAcks[cursor], TargetPacket))
    /\ retAt' = "L62"
    /\ fetchedAt' = fetchedAt \cup {cursor}
    /\ pc' = "done"
    /\ lastCall' = AcksCall(cursor, NilErr)
    /\ UNCHANGED <<sendVars, balVars, xlVars, appVars, startHeight, maxHeight, chainAcks, chainHeight, cancelled,
                   cursor, lastErr, curHeight, failedAt, itersAtCeiling,
                   itersSinceCancel>>

\* chain.Acknowledgements succeeds and nothing matches: advance.
FetchNoMatch ==
    /\ pc = "fetch"
    /\ ~HasMatch(chainAcks[cursor], TargetPacket)
    /\ cursor' = Incr(cursor)
    /\ fetchedAt' = fetchedAt \cup {cursor}
    /\ curHeight' = 0
    /\ pc' = "loop"
    /\ lastCall' = AcksCall(cursor, NilErr)
    /\ UNCHANGED <<sendVars, balVars, xlVars, appVars, startHeight, maxHeight, chainAcks, chainHeight, cancelled,
                   lastErr, ret, retAt, failedAt, itersAtCeiling,
                   itersSinceCancel>>

\* Loop left with a remembered fetch error: return it.
ExitLastErr ==
    /\ pc = "loop"
    /\ ~LoopCond(cursor, maxHeight)
    /\ lastErr # NilErr
    /\ ret' = RetErr(lastErr)
    /\ retAt' = "L69"
    /\ pc' = "done"
    /\ UNCHANGED <<sendVars, balVars, xlVars, appVars, startHeight, maxHeight, chainAcks, chainHeight, cancelled,
                   cursor, lastErr, curHeight, failedAt, fetchedAt,
                   itersAtCeiling, itersSinceCancel, lastCall>>

\* Loop left with no remembered error: not found.
ExitNotFound ==
    /\ pc = "loop"
    /\ ~LoopCond(cursor, maxHeight)
    /\ lastErr = NilErr
    /\ ret' = RetErr(NotFoundErr)
    /\ retAt' = "L71"
    /\ pc' = "done"
    /\ UNCHANGED <<sendVars, balVars, xlVars, appVars, startHeight, maxHeight, chainAcks, chainHeight, cancelled,
                   cursor, lastErr, curHeight, failedAt, fetchedAt,
                   itersAtCeiling, itersSinceCancel, lastCall>>

\* One step of the goroutine running PollForAck.
PollStep ==
    \/ PollPanic
    \/ PollEnter
    \/ HeightFails
    \/ HeightOk
    \/ HeightWaits
    \/ HeightReady
    \/ FetchFails
    \/ FetchMatch
    \/ FetchNoMatch
    \/ ExitLastErr
    \/ ExitNotFound

\* The ledger produces its next block.
ChainAdvance ==
    /\ chainHeight < MaxUint64
    /\ chainHeight' = chainHeight + 1
    /\ UNCHANGED <<sendVars, balVars, xlVars, appVars, startHeight, maxHeight, chainAcks, cancelled, pc, cursor,
                   lastErr, curHeight, ret, retAt, failedAt, fetchedAt,
                   itersAtCeiling, itersSinceCancel, lastCall>>

\* The caller cancels ctx.
Cancel ==
    /\ ~cancelled
    /\ cancelled' = TRUE
    /\ UNCHANGED <<sendVars, balVars, xlVars, appVars, startHeight, maxHeight, chainAcks, chainHeight, pc, cursor,
                   lastErr, curHeight, ret, retAt, failedAt, fetchedAt,
                   itersAtCeiling, itersSinceCancel, lastCall>>

(***************************************************************************)
(* PenumbraClientNode: SendFunds and SendIBCTransfer.                      *)
(***************************************************************************)
Calls == 1..NumCalls

\* Two client nodes: the first was constructed with its address string
\* cached, the second with an empty one.
Nodes == {1, 2}

NodeFields(n) ==
    [ KeyName      |-> IF n = 1 THEN "alice" ELSE "bob",
      VolumeName   |-> IF n = 1 THEN "vol-alice" ELSE "vol-bob",
      address      |-> IF n = 1 THEN "addr-bytes-alice" ELSE "",
      addrString   |-> IF n = 1 THEN "penumbra1alice" ELSE "",
      hostGRPCPort |-> IF n = 1 THEN "127.0.0.1:50001" ELSE "127.0.0.1:50002" ]

Kinds == {"SendFunds", "SendIBCTransfer"}

Stages == <<"plan", "authorize", "build", "broadcast">>

\* Errors a send call may return.
DialErr     == [kind |-> "dial",    at |-> 0]
NoAddrErr   == [kind |-> "noaddr",  at |-> 0]
StageErr(k) == [kind |-> Stages[k], at |-> k]

\* Values handed out by the remote services.  The planner's answer to the
\* request of call c is Plan(c); the custody service's answer to an authorize
\* request of call c carrying plan p is Auth(c, p); WitnessAndBuild turns a
\* plan and its authorization into Tx(p, a).
NoPlan      == [plan |-> 0]
Plan(c)     == [plan |-> c]
NoAuth      == [call |-> 0, plan |-> NoPlan]
Auth(c, p)  == [call |-> c, plan |-> p]
NoTx        == [plan |-> NoPlan, auth |-> NoAuth]
Tx(p, a)    == [plan |-> p, auth |-> a]

\* clienttypes.Height
Height(rn, rh) == [RevisionNumber |-> rn, RevisionHeight |-> rh]

\* transfertypes.DefaultRelativePacketTimeoutHeight ("0-1000"), parsed.
DefaultTimeoutRevisionHeight == 1000
\* transfertypes.DefaultRelativePacketTimeoutTimestamp, ten minutes; timestamps
\* are counted in seconds (10^9 ns).
DefaultTimeoutTimestamp == 600

\* ibc.TransferOptions.Timeout: nil, or an IBCTimeout{NanoSeconds, Height}.
NilTimeout == [isNil |-> TRUE, NanoSeconds |-> 0, Height |-> 0]
IBCTimeout(ns, h) == [isNil |-> FALSE, NanoSeconds |-> ns, Height |-> h]

TimeoutInputs ==
    {NilTimeout} \cup { IBCTimeout(ns, h) : ns \in {0, 7}, h \in {0, 5} }

\* Arguments (channelID, options.Timeout) a SendIBCTransfer call is given:
\* every timeout on the first channel, and the nil timeout on the second.
IBCInputs ==
    { [channelID |-> "channel-0", timeout |-> t] : t \in TimeoutInputs }
        \cup { [channelID |-> "channel-1", timeout |-> NilTimeout] }

defaultTransferTimeouts ==
    [height |-> Height(0, DefaultTimeoutRevisionHeight),
     timestamp |-> DefaultTimeoutTimestamp]

\* Variant: defaults are substituted as soon as either component is zero.
ibcTransferTimeoutsEitherZero(timeout) ==
    IF timeout.isNil THEN defaultTransferTimeouts
    ELSE IF timeout.NanoSeconds = 0 \/ timeout.Height = 0
         THEN defaultTransferTimeouts
         ELSE [height |-> Height(0, timeout.Height),
               timestamp |-> timeout.NanoSeconds]

ibcTransferTimeouts(timeout) ==
    IF timeout.isNil THEN defaultTransferTimeouts
    ELSE IF timeout.NanoSeconds = 0 /\ timeout.Height = 0
         THEN defaultTransferTimeouts
         ELSE [height |-> Height(0, timeout.Height),
               timestamp |-> timeout.NanoSeconds]

NoWithdrawal ==
    [ReturnAddress |-> "", SourceChannel |-> "",
     TimeoutHeight |-> Height(0, 0), TimeoutTime |-> 0]

\* Variant: the return address is taken from the cached address bytes.
Ics20WithdrawalAddressBytes(n, channelID, timeout) ==
    LET t == ibcTransferTimeouts(timeout)
    IN  [ReturnAddress |-> nodes[n].address,
         SourceChannel |-> channelID,
         TimeoutHeight |-> t.height,
         TimeoutTime   |-> t.timestamp]

\* The Ics20Withdrawal SendIBCTransfer builds for node n.
Ics20Withdrawal(n, channelID, timeout) ==
    LET t == ibcTransferTimeouts(timeout)
    IN  [ReturnAddress |-> nodes[n].addrString,
         SourceChannel |-> channelID,
         TimeoutHeight |-> t.height,
         TimeoutTime   |-> t.timestamp]

IdleCall ==
    [ pc           |-> "idle",     \* idle | dialed | planned | authorized | built | done
      kind         |-> "none",
      node         |-> 0,
      options      |-> NilTimeout,   \* argument options.Timeout
      channelID    |-> "",           \* argument channelID
      withdrawal   |-> NoWithdrawal, \* the withdrawal sent to the planner
      resp         |-> NoPlan,       \* resp.Plan
      authorizeReq |-> NoPlan,       \* authorizeReq.Plan
      authData     |-> NoAuth,       \* authData.Data
      wbr          |-> NoTx,         \* WitnessAndBuildRequest {plan, authorization}
      tx           |-> NoTx,         \* tx.Transaction
      btr          |-> NoTx,         \* BroadcastTransactionRequest.Transaction
      err          |-> NilErr,       \* returned error
      invoked      |-> << >>,        \* remote stages invoked, in order
      succeeded    |-> << >> ]       \* remote stages that returned without error

SendInit ==
    /\ nodes = [n \in Nodes |-> NodeFields(n)]
    /\ calls = [c \in Calls |-> IdleCall]

\* Variant: a failed authorize is ignored and the pipeline goes on.
AfterStageIgnoringAuthorize(k, ok) ==
    IF ok \/ k = 2
    THEN <<"planned", "authorized", "built", "done">>[k]
    ELSE "done"

\* Position after stage k returned: the next stage, or the return on error.
AfterStage(k, ok) ==
    IF ok
    THEN <<"planned", "authorized", "built", "done">>[k]
    ELSE "done"

\* Variant: build-and-sign is issued before authorize.
StageAtSwapped(p) ==
    CASE p = "dialed"     -> 1
      [] p = "planned"    -> 3
      [] p = "authorized" -> 2
      [] p = "built"      -> 4
      [] OTHER            -> 0

\* The stage a call issues from position p (0: none).
StageAt(p) ==
    CASE p = "dialed"     -> 1
      [] p = "planned"    -> 2
      [] p = "authorized" -> 3
      [] p = "built"      -> 4
      [] OTHER            -> 0

\* Variant: the plan is taken from whichever call planned last before it.
AuthorizePlanShared(c) ==
    IF \E d \in Calls : d # c /\ calls[d].resp # NoPlan
    THEN calls[CHOOSE d \in Calls : d # c /\ calls[d].resp # NoPlan].resp
    ELSE calls[c].resp

\* authorizeReq.Plan: the plan of this call's planner response.
AuthorizePlan(c) == calls[c].resp

\* Variant: the authorization data is taken from another call when it has one.
WitnessAndBuildShared(c) ==
    IF \E d \in Calls : d # c /\ calls[d].authData # NoAuth
    THEN Tx(calls[c].resp,
            calls[CHOOSE d \in Calls : d # c /\ calls[d].authData # NoAuth].authData)
    ELSE Tx(calls[c].resp, calls[c].authData)

\* wbr: this call's plan and this call's authorization data.
WitnessAndBuildRequest(c) == Tx(calls[c].resp, calls[c].authData)

\* Record of stage k having been issued and having returned ok or not.
StageDone(call, k, ok) ==
    [call EXCEPT !.invoked   = Append(@, Stages[k]),
                 !.succeeded = IF ok THEN Append(@, Stages[k]) ELSE @,
                 !.err       = IF ok THEN NilErr ELSE StageErr(k),
                 !.pc        = AfterStage(k, ok)]

\* Variant: a call that returns an error drops the node's cached address
\* string.
NodeAfterSendFailureClears(node, call) ==
    IF call.err # NilErr THEN [node EXCEPT !.addrString = ""] ELSE node

\* The node struct after a step of a send call: no statement of SendFunds or
\* SendIBCTransfer assigns to a field of p, whatever the call has reached.
NodeAfterSend(node, call) == node

\* What a step of call c leaves behind outside the call's own locals.
SendFrame(c) ==
    /\ nodes' = [n \in Nodes |->
                    IF n = calls'[c].node
                    THEN NodeAfterSend(nodes[n], calls'[c])
                    ELSE nodes[n]]
    /\ UNCHANGED <<pollVars, balVars, xlVars, appVars>>

\* A call begins on node n; grpc.Dial fails.
SendDialFails(c) ==
    /\ calls[c].pc = "idle"
    /\ \E kind \in Kinds, n \in Nodes :
          calls' = [calls EXCEPT ![c] =
                       [@ EXCEPT !.kind = kind, !.node = n,
                                 !.err = DialErr, !.pc = "done"]]
    /\ SendFrame(c)

\* A call begins on node n; grpc.Dial succeeds.
SendDialOk(c) ==
    /\ calls[c].pc = "idle"
    /\ \E kind \in Kinds, n \in Nodes :
          calls' = [calls EXCEPT ![c] =
                       [@ EXCEPT !.kind = kind, !.node = n, !.pc = "dialed"]]
    /\ SendFrame(c)

\* SendIBCTransfer on a node without a cached address string.
IBCNoAddr(c) ==
    /\ calls[c].pc = "dialed"
    /\ calls[c].kind = "SendIBCTransfer"
    /\ nodes[calls[c].node].addrString = ""
    /\ calls' = [calls EXCEPT ![c] = [@ EXCEPT !.err = NoAddrErr, !.pc = "done"]]
    /\ SendFrame(c)

\* SendFunds: TransactionPlanner.
FundsPlan(c) ==
    /\ calls[c].kind = "SendFunds"
    /\ StageAt(calls[c].pc) = 1
    /\ \E ok \in BOOLEAN :
          calls' = [calls EXCEPT ![c] =
                       StageDone([@ EXCEPT !.resp = IF ok THEN Plan(c) ELSE NoPlan],
                                 1, ok)]
    /\ SendFrame(c)

\* SendIBCTransfer: timeouts, withdrawal, TransactionPlanner.
IBCPlan(c) ==
    /\ calls[c].kind = "SendIBCTransfer"
    /\ StageAt(calls[c].pc) = 1
    /\ nodes[calls[c].node].addrString # ""
    /\ \E ok \in BOOLEAN, in \in IBCInputs :
          calls' = [calls EXCEPT ![c] =
                       StageDone([@ EXCEPT
                                     !.options = in.timeout,
                                     !.channelID = in.channelID,
                                     !.withdrawal =
                                         Ics20Withdrawal(calls[c].node, in.channelID,
                                                         in.timeout),
                                     !.resp = IF ok THEN Plan(c) ELSE NoPlan],
                                 1, ok)]
    /\ SendFrame(c)

\* Custody Authorize.
Authorize(c) ==
    /\ StageAt(calls[c].pc) = 2
    /\ \E ok \in BOOLEAN :
          LET p == AuthorizePlan(c)
          IN  calls' = [calls EXCEPT ![c] =
                           StageDone([@ EXCEPT
                                         !.authorizeReq = p,
                                         !.authData = IF ok THEN Auth(c, p) ELSE NoAuth],
                                     2, ok)]
    /\ SendFrame(c)

\* WitnessAndBuild.
WitnessAndBuild(c) ==
    /\ StageAt(calls[c].pc) = 3
    /\ \E ok \in BOOLEAN :
          LET req == WitnessAndBuildRequest(c)
          IN  calls' = [calls EXCEPT ![c] =
                           StageDone([@ EXCEPT
                                         !.wbr = req,
                                         !.tx = IF ok THEN Tx(req.plan, req.auth) ELSE NoTx],
                                     3, ok)]
    /\ SendFrame(c)

\* BroadcastTransaction, awaiting detection.
BroadcastTransaction(c) ==
    /\ StageAt(calls[c].pc) = 4
    /\ \E ok \in BOOLEAN :
          calls' = [calls EXCEPT ![c] =
                       StageDone([@ EXCEPT !.btr = calls[c].tx], 4, ok)]
    /\ SendFrame(c)

SendNext ==
    \E c \in Calls :
        \/ SendDialFails(c)
        \/ SendDialOk(c)
        \/ IBCNoAddr(c)
        \/ FundsPlan(c)
        \/ IBCPlan(c)
        \/ Authorize(c)
        \/ WitnessAndBuild(c)
        \/ BroadcastTransaction(c)

(***************************************************************************)
(* PenumbraClientNode.GetBalance and the amount translation.               *)
(***************************************************************************)
\* A uint64 is its eight bytes, most significant first; a math.Int is a sign
\* and the big-endian bytes of its magnitude without leading zeros
\* (big.Int.Bytes), or the zero value math.Int{}.
WordBytes == 8

Word(b1, b8) == <<b1, 0, 0, 0, 0, 0, 0, b8>>

\* Sample uint64 values: 0, 1, 2^56 and 255 * 2^56 + 255.
Words == { Word(0, 0), Word(0, 1), Word(1, 0), Word(255, 255) }

\* Sample amounts (hi, lo) of a balance record.
Amounts ==
    { [Hi |-> Word(0, 0),     Lo |-> Word(0, 0)],
      [Hi |-> Word(0, 0),     Lo |-> Word(0, 1)],
      [Hi |-> Word(0, 1),     Lo |-> Word(1, 0)],
      [Hi |-> Word(255, 255), Lo |-> Word(255, 255)] }

Denoms == {"upenumbra", "gm"}

NilInt == [isNil |-> TRUE, neg |-> FALSE, mag |-> << >>]
BigInt(neg, mag) == [isNil |-> FALSE, neg |-> neg, mag |-> mag]

\* Leading zero bytes dropped (the normal form of a big.Int magnitude).
RECURSIVE StripZeros(_)
StripZeros(bz) ==
    IF bz = << >> THEN << >>
    ELSE IF bz[1] = 0 THEN StripZeros(Tail(bz)) ELSE bz

\* translateHiAndLo: hi shifted left by 64 bits, plus lo.
translateHiAndLo(hi, lo) == BigInt(FALSE, StripZeros(hi \o lo))

RecvErr         == [kind |-> "recv",      at |-> 0]
BalancesErr     == [kind |-> "balances",  at |-> 0]
NoBalanceErr(d) == [kind |-> "nobalance", at |-> d]  \* "no balance was found for the denom %s"

NoAnswer        == [kind |-> "none",   amount |-> NilInt, err |-> NilErr]
AnswerAmount(i) == [kind |-> "amount", amount |-> i,      err |-> NilErr]
AnswerErr(e)    == [kind |-> "err",    amount |-> NilInt, err |-> e]

\* Variant: the last record received is the one decoded.
GetBalanceAnswerLast(balances, denom) ==
    IF Len(balances) <= 0
    THEN AnswerErr(NoBalanceErr(denom))
    ELSE AnswerAmount(translateHiAndLo(balances[Len(balances)].Hi,
                                       balances[Len(balances)].Lo))

\* The answer once the stream has ended.
GetBalanceAnswer(balances, denom) ==
    IF Len(balances) <= 0
    THEN AnswerErr(NoBalanceErr(denom))
    ELSE AnswerAmount(translateHiAndLo(balances[1].Hi, balances[1].Lo))

IdleBalance ==
    [ pc       |-> "idle",    \* idle | dialed | recv | done
      denom    |-> "",
      balances |-> << >>,     \* records appended so far
      ended    |-> "",        \* how the stream ended: "eof" or "err"
      ret      |-> NoAnswer ]

BalanceInit == bal = IdleBalance

\* GetBalance(denom) is called; grpc.Dial fails.
BalDialFails ==
    /\ bal.pc = "idle"
    /\ \E d \in Denoms :
          bal' = [bal EXCEPT !.denom = d, !.ret = AnswerErr(DialErr), !.pc = "done"]
    /\ UNCHANGED <<pollVars, sendVars, xlVars, appVars>>

\* GetBalance(denom) is called; grpc.Dial succeeds.
BalDialOk ==
    /\ bal.pc = "idle"
    /\ \E d \in Denoms : bal' = [bal EXCEPT !.denom = d, !.pc = "dialed"]
    /\ UNCHANGED <<pollVars, sendVars, xlVars, appVars>>

\* viewClient.Balances fails.
BalancesFails ==
    /\ bal.pc = "dialed"
    /\ bal' = [bal EXCEPT !.ret = AnswerErr(BalancesErr), !.pc = "done"]
    /\ UNCHANGED <<pollVars, sendVars, xlVars, appVars>>

\* viewClient.Balances returns the stream.
BalancesOk ==
    /\ bal.pc = "dialed"
    /\ bal' = [bal EXCEPT !.pc = "recv"]
    /\ UNCHANGED <<pollVars, sendVars, xlVars, appVars>>

\* Recv delivers a record: append it.
RecvRecord ==
    /\ bal.pc = "recv"
    /\ Len(bal.balances) < MaxStream
    /\ \E r \in Amounts : bal' = [bal EXCEPT !.balances = Append(@, r)]
    /\ UNCHANGED <<pollVars, sendVars, xlVars, appVars>>

\* Recv returns io.EOF: leave the loop and answer.
RecvEOF ==
    /\ bal.pc = "recv"
    /\ bal' = [bal EXCEPT !.ended = "eof",
                          !.ret = GetBalanceAnswer(bal.balances, bal.denom),
                          !.pc = "done"]
    /\ UNCHANGED <<pollVars, sendVars, xlVars, appVars>>

\* Recv returns another error: return it.
RecvFails ==
    /\ bal.pc = "recv"
    /\ bal' = [bal EXCEPT !.ended = "err", !.ret = AnswerErr(RecvErr), !.pc = "done"]
    /\ UNCHANGED <<pollVars, sendVars, xlVars, appVars>>

BalanceNext ==
    \/ BalDialFails
    \/ BalDialOk
    \/ BalancesFails
    \/ BalancesOk
    \/ RecvRecord
    \/ RecvEOF
    \/ RecvFails

(***************************************************************************)
(* translateBigInt and translateHiAndLo, one after the other.              *)
(***************************************************************************)
\* Length of the padded byte slice of translateBigInt.
AmountBytes == 16

\* Longest magnitude, in bytes, handed to translateBigInt.
MaxMagBytes == 17

\* An n-byte magnitude whose first and last bytes are given, zero between.
Mag(n, first, last) ==
    [j \in 1..n |-> IF j = 1 THEN first ELSE IF j = n THEN last ELSE 0]

\* An n-byte magnitude of non-zero bytes, no two neighbours alike.
Dense(n) == [j \in 1..n |-> ((j * 37) % 255) + 1]

\* The n-byte magnitude 2^(8n) - 1.
Ones(n) == [j \in 1..n |-> 255]

\* big.Int magnitudes in normal form: zero is the empty slice, the first
\* byte of any other is not zero.
Magnitudes ==
    { << >> }
      \cup { Mag(n, f, l) : n \in 1..MaxMagBytes, f \in {1, 255}, l \in {0, 1, 255} }
      \cup { Dense(n) : n \in 1..MaxMagBytes }
      \cup { Ones(n) : n \in 1..MaxMagBytes }

\* Arguments of translateBigInt: non-negative amounts and one negative.
IntInputs ==
    { BigInt(FALSE, m) : m \in Magnitudes } \cup { BigInt(TRUE, <<5>>) }

\* Arguments of translateHiAndLo.
WordInputs == Words \cup { Ones(WordBytes), Dense(WordBytes) }

\* Outcome of translateBigInt: the two halves, or a run-time panic.
Halves(hi, lo) == [panics |-> FALSE, hi |-> hi,    lo |-> lo]
SlicePanic     == [panics |-> TRUE,  hi |-> << >>, lo |-> << >>]

\* Variant: the magnitude is copied to the front of the padded slice.
translateBigIntPadRight(i) ==
    LET bz == i.mag
    IN  IF Len(bz) > AmountBytes
        THEN SlicePanic
        ELSE LET paddedBytes ==
                     [j \in 1..AmountBytes |->
                         IF j <= Len(bz) THEN bz[j] ELSE 0]
             IN  Halves(SubSeq(paddedBytes, 1, WordBytes),
                        SubSeq(paddedBytes, WordBytes + 1, AmountBytes))

\* translateBigInt: the magnitude's bytes (the sign is not looked at) are
\* copied to the end of a 16-byte slice; hi is read from its first eight
\* bytes and lo from its last eight.  The slice expression
\* paddedBytes[16-len(bz):] panics when the magnitude has more than 16 bytes.
translateBigInt(i) ==
    LET bz == i.mag
    IN  IF Len(bz) > AmountBytes
        THEN SlicePanic
        ELSE LET pad == AmountBytes - Len(bz)
                 paddedBytes ==
                     [j \in 1..AmountBytes |->
                         IF j <= pad THEN 0 ELSE bz[j - pad]]
             IN  Halves(SubSeq(paddedBytes, 1, WordBytes),
                        SubSeq(paddedBytes, WordBytes + 1, AmountBytes))

IdleXl ==
    [ pc   |-> "idle",     \* idle | split | joined | done | panic
      from |-> "",         \* "int": split then joined; "words": the converse
      i    |-> NilInt,     \* the math.Int given, or made from hi and lo
      hi   |-> << >>,
      lo   |-> << >>,
      back |-> NilInt,     \* translateHiAndLo of the halves of i
      hi2  |-> << >>,      \* translateBigInt of the Int made from hi and lo
      lo2  |-> << >> ]

XlInit == xl = IdleXl

\* translateBigInt(i) for an amount i.
XlSplit ==
    /\ xl.pc = "idle"
    /\ \E i \in IntInputs :
          LET r == translateBigInt(i)
          IN  xl' = [xl EXCEPT !.from = "int", !.i = i, !.hi = r.hi, !.lo = r.lo,
                               !.pc = IF r.panics THEN "panic" ELSE "split"]
    /\ UNCHANGED <<pollVars, sendVars, balVars, appVars>>

\* translateHiAndLo of the halves just produced.
XlJoinBack ==
    /\ xl.pc = "split"
    /\ xl' = [xl EXCEPT !.back = translateHiAndLo(xl.hi, xl.lo), !.pc = "done"]
    /\ UNCHANGED <<pollVars, sendVars, balVars, appVars>>

\* translateHiAndLo(hi, lo) for two words.
XlJoin ==
    /\ xl.pc = "idle"
    /\ \E hi \in WordInputs, lo \in WordInputs :
          xl' = [xl EXCEPT !.from = "words", !.hi = hi, !.lo = lo,
                           !.i = translateHiAndLo(hi, lo), !.pc = "joined"]
    /\ UNCHANGED <<pollVars, sendVars, balVars, appVars>>

\* translateBigInt of the Int just produced.
XlSplitBack ==
    /\ xl.pc = "joined"
    /\ LET r == translateBigInt(xl.i)
       IN  xl' = [xl EXCEPT !.hi2 = r.hi, !.lo2 = r.lo,
                            !.pc = IF r.panics THEN "panic" ELSE "done"]
    /\ UNCHANGED <<pollVars, sendVars, balVars, appVars>>

TranslateNext ==
    \/ XlSplit
    \/ XlJoinBack
    \/ XlJoin
    \/ XlSplitBack

(***************************************************************************)
(* PenumbraAppNode: keys and addresses.                                    *)
(***************************************************************************)
KeyNames == {"alice", "bob"}

\* Phrases handed to RecoverKey, and the phrase a generated key gets.
Mnemonics       == {"m1", "m2"}
GeneratedPhrase == "generated"

\* HomeDir() and filepath.Join(p.HomeDir(), "keys", keyName).
HomeDir          == <<"/home/heighliner">>
KeyPath(keyName) == HomeDir \o <<"keys", keyName>>

DataDirs == {HomeDir} \cup { KeyPath(n) : n \in KeyNames }

NoWallet == "none"

\* The address pcli derives from a wallet's phrase.
AddressOf(phrase) ==
    CASE phrase = "m1" -> "penumbra1m1"
      [] phrase = "m2" -> "penumbra1m2"
      [] OTHER         -> "penumbra1generated"

\* Errors of Exec: the command exited non-zero, or the job could not be run.
ExitErr == [kind |-> "exit", at |-> 1]
RunErr  == [kind |-> "run",  at |-> 0]

AddrNotFoundErr == [kind |-> "addrnotfound", at |-> 0]  \* errors.New("address not found")

\* Result of Exec: stdout and stderr as pieces of text, and the error.
ExecResult(stdout, stderr, err) == [stdout |-> stdout, stderr |-> stderr, err |-> err]
NoExec == ExecResult(<< >>, << >>, NilErr)

AlreadyExistsText == "already exists, refusing to overwrite it"

AlreadyExistsStderr == <<"Error: wallet file ", AlreadyExistsText, "\n">>
OtherStderr         == <<"Error: ", "permission denied", "\n">>
NoWalletStderr      == <<"Error: ", "no wallet found", "\n">>

\* strings.Contains on a text given as its pieces.
Contains(text, piece) == \E k \in 1..Len(text) : text[k] = piece

\* pcli "keys generate" / "keys import phrase" run with data directory dir:
\* the possible results of Exec and the wallets left behind.  A wallet that
\* exists is never overwritten; any run may also fail for another reason.
KeyCommand(wallets, dir, phrase) ==
    (IF wallets[dir] = NoWallet
     THEN { [res     |-> ExecResult(<<"Saving wallet", "\n">>, << >>, NilErr),
             wallets |-> [wallets EXCEPT ![dir] = phrase]] }
     ELSE { [res     |-> ExecResult(<< >>, AlreadyExistsStderr, ExitErr),
             wallets |-> wallets] })
      \cup { [res |-> ExecResult(<< >>, OtherStderr, e), wallets |-> wallets] :
                e \in {ExitErr, RunErr} }

\* Variant: an existing key is an error like any other.
KeyResultStrict(res) == res.err

\* The error CreateKey and RecoverKey return for a result of Exec.
KeyResult(res) ==
    IF res.err # NilErr /\ ~Contains(res.stderr, AlreadyExistsText)
    THEN res.err
    ELSE NilErr

NL == "\n"

\* The address listing printed for a data directory: a heading and one row
\* "index label address" for the wallet kept there, labelled with the key's
\* name.  A directory without a wallet makes the command fail or list nothing.
ListingCommand(wallets, dir) ==
    (IF wallets[dir] = NoWallet
     THEN { ExecResult(<< >>, NoWalletStderr, ExitErr),
            ExecResult(<<"Index", " ", "Label", " ", "Address", NL>>, << >>, NilErr) }
     ELSE { ExecResult(<<"Index", " ", "Label", " ", "Address", NL,
                         "0", " ", dir[Len(dir)], " ", AddressOf(wallets[dir]), NL>>,
                       << >>, NilErr) })
      \cup { ExecResult(<< >>, OtherStderr, e) : e \in {ExitErr, RunErr} }

\* strings.Split(stdout, "\n").
RECURSIVE SplitLines(_)
SplitLines(out) ==
    IF \A k \in 1..Len(out) : out[k] # NL
    THEN <<out>>
    ELSE LET k == CHOOSE k \in 1..Len(out) :
                      out[k] = NL /\ \A j \in 1..(k - 1) : out[j] # NL
         IN  <<SubSeq(out, 1, k - 1)>> \o SplitLines(SubSeq(out, k + 1, Len(out)))

IsSpace(t) == t \in {" ", "\t"}

\* strings.Fields(line).
Fields(line) == SelectSeq(line, LAMBDA t : ~IsSpace(t))

Found(a)     == [out |-> a,  err |-> NilErr]
AddrFailed(e) == [out |-> "", err |-> e]

\* Variant: the key's name is looked for in the first field.
RECURSIVE ScanAddressesFirstField(_, _)
ScanAddressesFirstField(addresses, keyName) ==
    IF addresses = << >>
    THEN AddrFailed(AddrNotFoundErr)
    ELSE LET fields == Fields(Head(addresses))
         IN  IF Len(fields) < 3
             THEN ScanAddressesFirstField(Tail(addresses), keyName)
             ELSE IF fields[1] = keyName
                  THEN Found(fields[3])
                  ELSE ScanAddressesFirstField(Tail(addresses), keyName)

\* The loop over the lines of the listing.
RECURSIVE ScanAddresses(_, _)
ScanAddresses(addresses, keyName) ==
    IF addresses = << >>
    THEN AddrFailed(AddrNotFoundErr)
    ELSE LET fields == Fields(Head(addresses))
         IN  IF Len(fields) < 3
             THEN ScanAddresses(Tail(addresses), keyName)
             ELSE IF fields[2] = keyName
                  THEN Found(fields[3])
                  ELSE ScanAddresses(Tail(addresses), keyName)

\* What GetAddress and GetAddressBech32m return for a result of Exec.
ResolveResult(res, keyName) ==
    IF res.err # NilErr
    THEN AddrFailed(res.err)
    ELSE ScanAddresses(SplitLines(res.stdout), keyName)

\* The data directory each resolver hands to pcli.
ListingDir(fn, keyName) ==
    IF fn = "GetAddress" THEN KeyPath(keyName) ELSE HomeDir

Resolvers == {"GetAddress", "GetAddressBech32m"}

IdleOp ==
    [ fn       |-> "",
      pc       |-> "idle",     \* idle | a position inside the operation | done
      keyName  |-> "",         \* key name, or the node the operation is on
      mnemonic |-> "",
      args     |-> << >>,      \* other arguments
      exec     |-> NoExec,     \* result of the latest Exec
      trace    |-> << >>,      \* adapter calls made by the operation, in order
      out      |-> "",         \* value returned
      err      |-> NilErr,     \* error returned, without its wrapping
      wraps    |-> << >> ]     \* messages fmt.Errorf wrapped around it

\* A completed single-command operation.
DoneOp(fn, keyName, mnemonic, res, out, err) ==
    [ fn |-> fn, pc |-> "done", keyName |-> keyName, mnemonic |-> mnemonic,
      args |-> << >>, exec |-> res, trace |-> <<"exec">>, out |-> out, err |-> err,
      wraps |-> << >> ]

NoFiles == [f \in {"validators.json", "allocations.csv", "genesis.json"} |-> << >>]

EmptyVolume == [wallets |-> [d \in DataDirs |-> NoWallet], files |-> NoFiles]

NodeKinds == {"app", "client"}

\* A node's container: its state, the host ports the runtime maps its ports
\* to while it runs, and the host ports cached in the node struct.
NoMapping == <<"", "">>

NoContainer ==
    [state |-> "none", mapped |-> NoMapping, hostRPCPort |-> "", hostGRPCPort |-> ""]

AppInit ==
    /\ volume = EmptyVolume
    /\ containers = [k \in NodeKinds |-> NoContainer]
    /\ op = IdleOp
    /\ prevOp = IdleOp

\* No operation is under way.
AtRest == op.pc \in {"idle", "done"}

CreateKey(keyName) ==
    /\ AtRest
    /\ \E o \in KeyCommand(volume.wallets, KeyPath(keyName), GeneratedPhrase) :
          /\ volume' = [volume EXCEPT !.wallets = o.wallets]
          /\ op' = DoneOp("CreateKey", keyName, "", o.res, "", KeyResult(o.res))
    /\ prevOp' = op
    /\ UNCHANGED <<pollVars, sendVars, balVars, xlVars, containers>>

RecoverKey(keyName, mnemonic) ==
    /\ AtRest
    /\ \E o \in KeyCommand(volume.wallets, KeyPath(keyName), mnemonic) :
          /\ volume' = [volume EXCEPT !.wallets = o.wallets]
          /\ op' = DoneOp("RecoverKey", keyName, mnemonic, o.res, "", KeyResult(o.res))
    /\ prevOp' = op
    /\ UNCHANGED <<pollVars, sendVars, balVars, xlVars, containers>>

GetAddress(keyName) ==
    /\ AtRest
    /\ \E res \in ListingCommand(volume.wallets, ListingDir("GetAddress", keyName)) :
          LET r == ResolveResult(res, keyName)
          IN  op' = DoneOp("GetAddress", keyName, "", res, r.out, r.err)
    /\ prevOp' = op
    /\ UNCHANGED <<pollVars, sendVars, balVars, xlVars, volume, containers>>

GetAddressBech32m(keyName) ==
    /\ AtRest
    /\ \E res \in ListingCommand(volume.wallets, ListingDir("GetAddressBech32m", keyName)) :
          LET r == ResolveResult(res, keyName)
          IN  op' = DoneOp("GetAddressBech32m", keyName, "", res, r.out, r.err)
    /\ prevOp' = op
    /\ UNCHANGED <<pollVars, sendVars, balVars, xlVars, volume, containers>>

KeyNext ==
    \E keyName \in KeyNames :
        \/ CreateKey(keyName)
        \/ \E mnemonic \in Mnemonics : RecoverKey(keyName, mnemonic)
        \/ GetAddress(keyName)
        \/ GetAddressBech32m(keyName)

(***************************************************************************)
(* Address resolution on given listings.                                   *)
(***************************************************************************)
\* A line of a listing: fields separated by single spaces, then a newline.
Row(fields) ==
    [j \in 1..(2 * Len(fields)) |->
        IF j = 2 * Len(fields) THEN NL
        ELSE IF j % 2 = 1 THEN fields[(j + 1) \div 2] ELSE " "]

\* Sample outputs of the listing command.
SampleStdouts ==
    { << >>,
      <<NL>>,
      Row(<<"Index", "Label", "Address">>),
      Row(<<"0", "alice", "addrA">>),
      Row(<<"0", "bob", "addrB">>) \o Row(<<"1", "alice", "addrA">>),
      Row(<<"0", "alice", "addrA">>) \o Row(<<"1", "alice", "addrA2">>),
      Row(<<"0", "alice", "addrA">>) \o Row(<<"1", "bob", "addrB">>),
      Row(<<"alice", "addrA">>),
      Row(<<"0", "alice">>) \o Row(<<"1", "alice", "addrA">>),
      Row(<<"0", "bob">>) \o Row(<<"bob">>) \o Row(<<"1", "bob", "addrB">>),
      <<" ", " ", "0", " ", "\t", "alice", "\t", " ", "addrA", " ", NL>>,
      Row(<<"0", "alice", "addrA", "extra">>),
      Row(<<"alice", "0", "addrA">>),
      Row(<<"0", "x", "alice">>),
      <<"0", " ", "bob", " ", "addrB">>,
      <<NL, NL>> \o Row(<<"0", "bob", "addrB">>) }

\* Sample results of Exec for the listing command: each output with exit
\* status zero, and failures with and without output.
SampleListings ==
    { ExecResult(out, << >>, NilErr) : out \in SampleStdouts }
      \cup { ExecResult(<< >>, OtherStderr, ExitErr),
             ExecResult(<< >>, OtherStderr, RunErr),
             ExecResult(Row(<<"0", "alice", "addrA">>), OtherStderr, ExitErr) }

\* A resolver whose listing command has just returned res.
ListedOp(fn, keyName, res) ==
    [IdleOp EXCEPT !.fn = fn, !.pc = "listed", !.keyName = keyName,
                   !.exec = res, !.trace = <<"exec">>]

ResolveInit ==
    /\ volume = EmptyVolume
    /\ containers = [k \in NodeKinds |-> NoContainer]
    /\ op \in { ListedOp(fn, keyName, res) :
                   fn \in Resolvers, keyName \in KeyNames, res \in SampleListings }
    /\ prevOp = IdleOp

\* The rest of GetAddress / GetAddressBech32m after Exec has returned.
ResolveListing ==
    /\ op.pc = "listed"
    /\ LET r == ResolveResult(op.exec, op.keyName)
       IN  op' = DoneOp(op.fn, op.keyName, "", op.exec, r.out, r.err)
    /\ UNCHANGED <<pollVars, sendVars, balVars, xlVars, volume, containers, prevOp>>

ResolveNext == ResolveListing

(***************************************************************************)
(* PenumbraAppNode.GenerateGenesisFile.                                    *)
(***************************************************************************)
ChainIDs == {"chain-a"}

ValidatorLists == { << >>, <<"validator0">> }

Allocation(amount, denom, address) ==
    [Amount |-> amount, Denom |-> denom, Address |-> address]

AllocationLists ==
    { << >>,
      << Allocation(100, "upenumbra", "penumbra1m1") >>,
      << Allocation(100, "upenumbra", "penumbra1m1"),
         Allocation(7, "gm", "penumbra1m2") >> }

\* json.Marshal(validators).
ValidatorsJson(validators) == <<"json">> \o validators

\* The CSV text: the heading, then one quoted line per allocation.
AllocationsCsv(allocations) ==
    << <<"amount", "denom", "address">> >>
      \o [j \in 1..Len(allocations) |->
             <<allocations[j].Amount, allocations[j].Denom, allocations[j].Address>>]

\* The genesis "pd testnet generate" leaves in the volume.
GenesisOf(chainID, files) ==
    <<chainID, files["validators.json"], files["allocations.csv"]>>

MarshalErr == [kind |-> "marshal", at |-> 0]
WriteErr   == [kind |-> "write",   at |-> 0]
ReadErr    == [kind |-> "read",    at |-> 0]

\* The adapter calls of GenerateGenesisFile, in program order.
GenSteps == <<"validators", "allocations", "generate", "read">>

\* Message wrapped around the error of each step.
GenWraps(step) ==
    CASE step = "marshal"     -> <<"error marshalling validators to json">>
      [] step = "validators"  -> <<"error writing validators to file">>
      [] step = "allocations" -> <<"error writing allocations to file">>
      [] step = "generate"    -> <<"failed to exec testnet generate">>
      [] step = "read"        -> <<"failed to read genesis file contents",
                                   "error getting genesis.json content">>

\* Variant: a failed write of the allocations does not end the operation.
GenAfterAllocationsIgnored(step, ok) ==
    IF ~ok /\ step # "allocations" THEN "done"
    ELSE CASE step = "validators"  -> "allocations"
           [] step = "allocations" -> "generate"
           [] step = "generate"    -> "read"
           [] step = "read"        -> "done"

\* Position after a step: the next step, or the return.
GenAfter(step, ok) ==
    IF ~ok THEN "done"
    ELSE CASE step = "validators"  -> "allocations"
           [] step = "allocations" -> "generate"
           [] step = "generate"    -> "read"
           [] step = "read"        -> "done"

\* The operation record after a step has returned err.
GenStepped(step, res, err) ==
    [op EXCEPT !.trace = Append(@, step),
               !.exec  = IF step = "generate" THEN res ELSE @,
               !.err   = err,
               !.wraps = IF err = NilErr THEN << >> ELSE GenWraps(step),
               !.pc    = GenAfter(step, err = NilErr)]

\* GenerateGenesisFile is called and json.Marshal succeeds.
GenBegin ==
    /\ AtRest
    /\ \E c \in ChainIDs, v \in ValidatorLists, a \in AllocationLists :
          op' = [IdleOp EXCEPT !.fn = "GenerateGenesisFile", !.pc = "validators",
                               !.args = <<c, v, a>>]
    /\ prevOp' = op
    /\ UNCHANGED <<pollVars, sendVars, balVars, xlVars, volume, containers>>

\* GenerateGenesisFile is called and json.Marshal fails.
GenMarshalFails ==
    /\ AtRest
    /\ \E c \in ChainIDs, v \in ValidatorLists, a \in AllocationLists :
          op' = [IdleOp EXCEPT !.fn = "GenerateGenesisFile", !.pc = "done",
                               !.args = <<c, v, a>>,
                               !.err = MarshalErr, !.wraps = GenWraps("marshal")]
    /\ prevOp' = op
    /\ UNCHANGED <<pollVars, sendVars, balVars, xlVars, volume, containers>>

\* fw.WriteFile writes validators.json.
GenWriteValidatorsOk ==
    /\ op.pc = "validators"
    /\ volume' = [volume EXCEPT !.files["validators.json"] = ValidatorsJson(op.args[2])]
    /\ op' = GenStepped("validators", NoExec, NilErr)
    /\ UNCHANGED <<pollVars, sendVars, balVars, xlVars, containers, prevOp>>

GenWriteValidatorsFails ==
    /\ op.pc = "validators"
    /\ op' = GenStepped("validators", NoExec, WriteErr)
    /\ UNCHANGED <<pollVars, sendVars, balVars, xlVars, volume, containers, prevOp>>

\* fw.WriteFile writes allocations.csv.
GenWriteAllocationsOk ==
    /\ op.pc = "allocations"
    /\ volume' = [volume EXCEPT !.files["allocations.csv"] = AllocationsCsv(op.args[3])]
    /\ op' = GenStepped("allocations", NoExec, NilErr)
    /\ UNCHANGED <<pollVars, sendVars, balVars, xlVars, containers, prevOp>>

GenWriteAllocationsFails ==
    /\ op.pc = "allocations"
    /\ op' = GenStepped("allocations", NoExec, WriteErr)
    /\ UNCHANGED <<pollVars, sendVars, balVars, xlVars, volume, containers, prevOp>>

\* Exec runs "pd testnet generate", which leaves genesis.json in the volume.
GenExecOk ==
    /\ op.pc = "generate"
    /\ volume' = [volume EXCEPT !.files["genesis.json"] = GenesisOf(op.args[1], volume.files)]
    /\ op' = GenStepped("generate", ExecResult(<< >>, << >>, NilErr), NilErr)
    /\ UNCHANGED <<pollVars, sendVars, balVars, xlVars, containers, prevOp>>

GenExecFails ==
    /\ op.pc = "generate"
    /\ \E e \in {ExitErr, RunErr} :
          op' = GenStepped("generate", ExecResult(<< >>, OtherStderr, e), e)
    /\ UNCHANGED <<pollVars, sendVars, balVars, xlVars, volume, containers, prevOp>>

\* genesisFileContent reads genesis.json back.
GenReadOk ==
    /\ op.pc = "read"
    /\ op' = GenStepped("read", NoExec, NilErr)
    /\ UNCHANGED <<pollVars, sendVars, balVars, xlVars, volume, containers, prevOp>>

GenReadFails ==
    /\ op.pc = "read"
    /\ op' = GenStepped("read", NoExec, ReadErr)
    /\ UNCHANGED <<pollVars, sendVars, balVars, xlVars, volume, containers, prevOp>>

GenesisNext ==
    \/ GenBegin
    \/ GenMarshalFails
    \/ GenWriteValidatorsOk
    \/ GenWriteValidatorsFails
    \/ GenWriteAllocationsOk
    \/ GenWriteAllocationsFails
    \/ GenExecOk
    \/ GenExecFails
    \/ GenReadOk
    \/ GenReadFails

(***************************************************************************)
(* StartContainer / StopContainer of the app node and the client node.     *)
(***************************************************************************)
\* Host ports the container runtime may map a started container's ports to,
\* as (rpc, grpc) pairs.
PortMappings ==
    { <<"127.0.0.1:32768", "127.0.0.1:32769">>,
      <<"127.0.0.1:32770", "127.0.0.1:32771">> }

LifecycleErr == [kind |-> "lifecycle", at |-> 0]

\* A completed lifecycle operation of node k.
LifecycleOp(fn, k, trace, err) ==
    [IdleOp EXCEPT !.fn = fn, !.pc = "done", !.keyName = k,
                   !.trace = trace, !.err = err]

\* The ports StartContainer caches for node k out of a mapping: the app node
\* asks for rpcPort and grpcPort, the client node for pclientdPort only.
CachedPorts(k, c, m) ==
    IF k = "app"
    THEN [c EXCEPT !.hostRPCPort = m[1], !.hostGRPCPort = m[2]]
    ELSE [c EXCEPT !.hostGRPCPort = m[1]]

\* CreateNodeContainer: containerLifecycle.CreateContainer creates the
\* container.
CreateOk(k) ==
    /\ AtRest
    /\ containers[k].state = "none"
    /\ containers' = [containers EXCEPT ![k].state = "created"]
    /\ op' = LifecycleOp("CreateNodeContainer", k, <<"CreateContainer">>, NilErr)
    /\ UNCHANGED <<pollVars, sendVars, balVars, xlVars, volume, prevOp>>

\* containerLifecycle.CreateContainer fails.
CreateFails(k) ==
    /\ AtRest
    /\ containers[k].state = "none"
    /\ op' = LifecycleOp("CreateNodeContainer", k, <<"CreateContainer">>, LifecycleErr)
    /\ UNCHANGED <<pollVars, sendVars, balVars, xlVars, volume, containers, prevOp>>

\* containerLifecycle.StartContainer fails.
StartFails(k) ==
    /\ AtRest
    /\ op' = LifecycleOp("StartContainer", k, <<"StartContainer">>, LifecycleErr)
    /\ UNCHANGED <<pollVars, sendVars, balVars, xlVars, volume, containers, prevOp>>

\* The container starts (a stopped one is started again, a running one is
\* left running) but GetHostPorts fails.
StartPortsFail(k) ==
    /\ AtRest
    /\ containers[k].state # "none"
    /\ \E m \in PortMappings :
          containers' =
              [containers EXCEPT ![k].state = "running",
                                 ![k].mapped = IF containers[k].state = "running" THEN @ ELSE m]
    /\ op' = LifecycleOp("StartContainer", k, <<"StartContainer", "GetHostPorts">>, LifecycleErr)
    /\ UNCHANGED <<pollVars, sendVars, balVars, xlVars, volume, prevOp>>

\* The container starts and GetHostPorts reports its mapping.
StartOk(k) ==
    /\ AtRest
    /\ containers[k].state # "none"
    /\ \E m \in PortMappings :
          LET mapped == IF containers[k].state = "running" THEN containers[k].mapped ELSE m
          IN  containers' =
                  [containers EXCEPT ![k] = CachedPorts(k, [@ EXCEPT !.state = "running",
                                                                      !.mapped = mapped], mapped)]
    /\ op' = LifecycleOp("StartContainer", k, <<"StartContainer", "GetHostPorts">>, NilErr)
    /\ UNCHANGED <<pollVars, sendVars, balVars, xlVars, volume, prevOp>>

\* containerLifecycle.StopContainer stops the container.
StopOk(k) ==
    /\ AtRest
    /\ containers[k].state \in {"running", "exited"}
    /\ containers' = [containers EXCEPT ![k].state = "exited"]
    /\ op' = LifecycleOp("StopContainer", k, <<"StopContainer">>, NilErr)
    /\ UNCHANGED <<pollVars, sendVars, balVars, xlVars, volume, prevOp>>

\* containerLifecycle.StopContainer fails.
StopFails(k) ==
    /\ AtRest
    /\ op' = LifecycleOp("StopContainer", k, <<"StopContainer">>, LifecycleErr)
    /\ UNCHANGED <<pollVars, sendVars, balVars, xlVars, volume, containers, prevOp>>

LifecycleNext ==
    \E k \in NodeKinds :
        \/ CreateOk(k)
        \/ CreateFails(k)
        \/ StartFails(k)
        \/ StartPortsFail(k)
        \/ StartOk(k)
        \/ StopOk(k)
        \/ StopFails(k)

(***************************************************************************)
(* Specifications.                                                         *)
(***************************************************************************)
\* A poller that is never called.
PollQuiet ==
    /\ startHeight = 0
    /\ maxHeight = 0
    /\ chainAcks = [h \in Heights |-> << >>]
    /\ chainHeight = 0
    /\ cancelled = FALSE
    /\ pc = "idle"
    /\ cursor = 0
    /\ lastErr = NilErr
    /\ curHeight = 0
    /\ ret = NoRet
    /\ retAt = "none"
    /\ failedAt = {}
    /\ fetchedAt = {}
    /\ itersAtCeiling = 0
    /\ itersSinceCancel = 0
    /\ lastCall = NoCall

\* Initial states of the specifications: one component under study, the
\* others at rest.
PollSpecInit == PollInit /\ SendInit /\ BalanceInit /\ XlInit /\ AppInit

SendSpecInit == PollQuiet /\ SendInit /\ BalanceInit /\ XlInit /\ AppInit

BalanceSpecInit == PollQuiet /\ SendInit /\ BalanceInit /\ XlInit /\ AppInit

TranslateSpecInit == PollQuiet /\ SendInit /\ BalanceInit /\ XlInit /\ AppInit

KeySpecInit == PollQuiet /\ SendInit /\ BalanceInit /\ XlInit /\ AppInit

ResolveSpecInit == PollQuiet /\ SendInit /\ BalanceInit /\ XlInit /\ ResolveInit

GenesisSpecInit == PollQuiet /\ SendInit /\ BalanceInit /\ XlInit /\ AppInit

LifecycleSpecInit == PollQuiet /\ SendInit /\ BalanceInit /\ XlInit /\ AppInit

PollNext ==
    \/ PollStep
    \/ ChainAdvance

PollSpec == PollSpecInit /\ [][PollNext]_vars

\* The same call with a caller that may cancel ctx at any moment.
CancelPollNext ==
    \/ PollNext
    \/ Cancel

CancelPollSpec == PollSpecInit /\ [][CancelPollNext]_vars

\* The goroutine running PollForAck keeps being scheduled; the ledger and the
\* caller are under no obligation to act.
FairPollSpec == PollSpec /\ WF_vars(PollStep)

SendSpec == SendSpecInit /\ [][SendNext]_vars

BalanceSpec == BalanceSpecInit /\ [][BalanceNext]_vars

TranslateSpec == TranslateSpecInit /\ [][TranslateNext]_vars

KeySpec == KeySpecInit /\ [][KeyNext]_vars

ResolveSpec == ResolveSpecInit /\ [][ResolveNext]_vars

GenesisSpec == GenesisSpecInit /\ [][GenesisNext]_vars

LifecycleSpec == LifecycleSpecInit /\ [][LifecycleNext]_vars

(***************************************************************************)
(* Properties of PollForAck.                                               *)
(***************************************************************************)
InRange(h) == startHeight <= h /\ h <= maxHeight

MatchAt(h) == HasMatch(chainAcks[h], TargetPacket)

MatchInRange == \E h \in Heights : InRange(h) /\ MatchAt(h)

\* A matching acknowledgement sits at a height in range whose fetch did not fail.
MatchFetchable == \E h \in Heights : InRange(h) /\ MatchAt(h) /\ h \notin failedAt

Returned == pc = "done"

ReturnedMatch ==
    /\ pc = "done"
    /\ ret.kind = "ack"
    /\ ret.err = NilErr
    /\ PacketEqual(TargetPacket, ret.ack.packet)

RangeFetched == \A h \in Heights : InRange(h) => h \in fetchedAt

\* C1 (as stated): once the ledger has reached maxHeight, a call that has
\* returned although a matching acknowledgement exists in
\* [startHeight, maxHeight] has returned a matching acknowledgement and no error.
C1_FindsDelivered ==
    (Returned /\ chainHeight >= maxHeight /\ MatchInRange) => ReturnedMatch

\* C1 (amended): a call that returned without a failed height read, while a
\* matching acknowledgement exists at an in-range height whose fetch did not
\* fail, returned a matching acknowledgement and no error; and in every run in
\* which the ledger reaches maxHeight the call eventually returns a match,
\* unless a height read fails or the fetch fails at every matching height.
C1_FindsFetchable ==
    /\ []((Returned /\ retAt # "L48" /\ MatchFetchable) => ReturnedMatch)
    /\ (<>(chainHeight >= maxHeight)
          => <>(ReturnedMatch \/ retAt = "L48" \/ ~MatchFetchable))

\* C1 witness: a match returned after an earlier height failed to fetch, with
\* the ledger at maxHeight.
C1_Witness ==
    /\ ReturnedMatch
    /\ chainHeight >= maxHeight
    /\ failedAt # {}
    /\ startHeight < maxHeight

\* C2 (as stated): when no acknowledgement in [startHeight, maxHeight] matches,
\* the call never returns an acknowledgement, and it begins at most
\* maxHeight - startHeight + 1 iterations with the ledger at or above maxHeight.
C2_NoBlockPastCeiling ==
    (startHeight <= maxHeight /\ ~MatchInRange)
        => /\ ret.kind # "ack"
           /\ itersAtCeiling <= maxHeight - startHeight + 1

C4_ObservesCancellation ==
    /\ itersSinceCancel <= 1
    /\ (Returned /\ itersSinceCancel >= 1) => ret = RetErr(CtxErr)

\* C5 (as stated): a call that returns an error has its cursor above maxHeight
\* and has visited every height from startHeight to maxHeight.
C5_FailsOnlyAfterBudget ==
    (Returned /\ ret.kind = "err") => (cursor > maxHeight /\ RangeFetched)

\* C5 (amended): a call that returns an error other than a failed height
\* read has its cursor at maxHeight + 1 and has visited every height from
\* startHeight to maxHeight.
C5_FetchFailsOnlyAfterBudget ==
    (Returned /\ ret.kind = "err" /\ retAt # "L48")
        => (cursor = maxHeight + 1 /\ RangeFetched)

\* C5 witness: the remembered fetch error returned after the whole range.
C5_Witness ==
    /\ Returned
    /\ retAt = "L69"
    /\ startHeight < maxHeight
    /\ cursor = maxHeight + 1

(***************************************************************************)
(* Properties of SendFunds and SendIBCTransfer.                            *)
(***************************************************************************)
Range(q) == { q[i] : i \in 1..Len(q) }

IsPrefix(q, r) == Len(q) <= Len(r) /\ q = SubSeq(r, 1, Len(q))

\* Stage k of call c was issued and returned an error.
StageFailed(c, k) ==
    /\ Stages[k] \in Range(calls[c].invoked)
    /\ Stages[k] \notin Range(calls[c].succeeded)

ReturnedOk(c) == calls[c].pc = "done" /\ calls[c].err = NilErr

\* C6: when stage k of a call fails, the call has returned exactly that
\* stage's error and the stages it has issued are exactly the first k, each
\* once: no later stage is issued and the failed stage is not issued again.
C6_PipelineAbort ==
    \A c \in Calls : \A k \in 1..Len(Stages) :
        StageFailed(c, k)
            => /\ calls[c].pc = "done"
               /\ calls[c].err = StageErr(k)
               /\ calls[c].invoked = SubSeq(Stages, 1, k)

\* C6 witness: authorize failed in one call, which issued plan and authorize
\* only, while the other call ran all four stages.
C6_Witness ==
    \E c, d \in Calls :
        /\ c # d
        /\ StageFailed(c, 2)
        /\ calls[c].invoked = <<"plan", "authorize">>
        /\ calls[c].kind = "SendIBCTransfer"
        /\ ReturnedOk(d)

\* C7: the stages a call has issued are a prefix of plan, authorize,
\* build-and-sign, broadcast (in that order, each at most once); a stage is
\* issued only when every stage before it has returned successfully; a call
\* that returned successfully issued all four.
C7_StageOrder ==
    \A c \in Calls :
        /\ IsPrefix(calls[c].invoked, Stages)
        /\ IsPrefix(calls[c].succeeded, calls[c].invoked)
        /\ Len(calls[c].invoked) <= Len(calls[c].succeeded) + 1
        /\ ReturnedOk(c) => calls[c].invoked = Stages /\ calls[c].succeeded = Stages

\* C7 witness: a call of each kind returned successfully.
C7_Witness ==
    \E c, d \in Calls :
        /\ ReturnedOk(c) /\ calls[c].kind = "SendFunds"
        /\ ReturnedOk(d) /\ calls[d].kind = "SendIBCTransfer"
        /\ calls[c].invoked = Stages

\* C8: in every interleaving, the authorize request of call c carries the plan
\* the planner returned to c, its build-and-sign request carries that plan
\* with the authorization data the custody service returned to c for it, and
\* the transaction it broadcasts is the one built from that pair; nothing
\* returned to another call appears in them.
C8_PlanAuthBinding ==
    \A c \in Calls :
        /\ "authorize" \in Range(calls[c].invoked)
              => /\ calls[c].resp = Plan(c)
                 /\ calls[c].authorizeReq = Plan(c)
        /\ "build" \in Range(calls[c].invoked)
              => /\ calls[c].authData = Auth(c, Plan(c))
                 /\ calls[c].wbr = Tx(Plan(c), Auth(c, Plan(c)))
        /\ "broadcast" \in Range(calls[c].invoked)
              => calls[c].btr = Tx(Plan(c), Auth(c, Plan(c)))

\* C8 witness: two calls on the same node have both issued build-and-sign
\* while neither has returned.
C8_Witness ==
    \E c, d \in Calls :
        /\ c # d
        /\ calls[c].node = calls[d].node
        /\ calls[c].pc = "built"
        /\ calls[d].pc = "built"
        /\ calls[c].wbr # calls[d].wbr

\* C9: the withdrawal of a SendIBCTransfer call carries the default relative
\* timeout height and duration when the caller's timeout is nil or has height
\* 0 and duration 0, and otherwise the caller's height and duration unchanged,
\* a zero component included.
C9_TimeoutDefaulting ==
    \A c \in Calls :
        calls[c].withdrawal # NoWithdrawal
            => LET o == calls[c].options
                   w == calls[c].withdrawal
               IN  IF o.isNil \/ (o.Height = 0 /\ o.NanoSeconds = 0)
                   THEN /\ w.TimeoutHeight = Height(0, DefaultTimeoutRevisionHeight)
                        /\ w.TimeoutTime = DefaultTimeoutTimestamp
                   ELSE /\ w.TimeoutHeight = Height(0, o.Height)
                        /\ w.TimeoutTime = o.NanoSeconds

\* C9 witness: a timeout with height 5 and duration 0 passed through, and
\* another call was given the defaults for a nil timeout.
C9_Witness ==
    \E c, d \in Calls :
        /\ calls[c].options = IBCTimeout(0, 5)
        /\ calls[c].withdrawal.TimeoutHeight = Height(0, 5)
        /\ calls[c].withdrawal.TimeoutTime = 0
        /\ calls[d].withdrawal # NoWithdrawal
        /\ calls[d].options = NilTimeout
        /\ calls[d].withdrawal.TimeoutTime = DefaultTimeoutTimestamp

(***************************************************************************)
(* Properties of GetBalance.                                               *)
(***************************************************************************)
\* bz padded on the left with zero bytes to n bytes.
PadLeft(bz, n) == [i \in 1..(n - Len(bz)) |-> 0] \o bz

\* i is the non-negative integer whose 128-bit big-endian form is hi then lo.
IsAmountOf(i, hi, lo) ==
    /\ ~i.isNil
    /\ ~i.neg
    /\ Len(i.mag) <= 2 * WordBytes
    /\ (i.mag # << >> => i.mag[1] # 0)
    /\ PadLeft(i.mag, 2 * WordBytes) = hi \o lo

\* C10: GetBalance answers with an amount only after the stream has ended
\* with end-of-stream; if the stream ended with no record received the answer
\* is the not-found error for the denom, otherwise the decoded amount of the
\* first record received; if a receive failed with another error the answer
\* is that error and no amount, whatever was received before.
C10_GetBalance ==
    /\ bal.ret.kind = "amount" => bal.ended = "eof"
    /\ (bal.pc = "done" /\ bal.ended = "eof" /\ bal.balances = << >>)
          => bal.ret = AnswerErr(NoBalanceErr(bal.denom))
    /\ (bal.pc = "done" /\ bal.ended = "eof" /\ bal.balances # << >>)
          => /\ bal.ret.kind = "amount"
             /\ bal.ret.err = NilErr
             /\ IsAmountOf(bal.ret.amount, bal.balances[1].Hi, bal.balances[1].Lo)
    /\ (bal.pc = "done" /\ bal.ended = "err")
          => bal.ret = AnswerErr(RecvErr)

\* C10 witness: two different records were received before end-of-stream and
\* the first one's amount was returned.
C10_Witness ==
    /\ bal.pc = "done"
    /\ bal.ended = "eof"
    /\ Len(bal.balances) = 2
    /\ bal.balances[1] # bal.balances[2]
    /\ bal.balances[1].Hi # Word(0, 0)
    /\ bal.ret.kind = "amount"

(***************************************************************************)
(* Properties of the amount translation.                                   *)
(***************************************************************************)
\* The magnitudes 0 .. 2^128 - 1: non-negative, at most 16 bytes.
IsMagnitude128(i) == ~i.isNil /\ ~i.neg /\ Len(i.mag) <= 2 * WordBytes

\* C11: for every magnitude M in 0 .. 2^128 - 1, translateBigInt(M) does not
\* panic and yields two 64-bit words hi, lo whose sixteen bytes are M written
\* big-endian (M = hi * 2^64 + lo), and translateHiAndLo(hi, lo) is M again;
\* conversely, for all 64-bit hi and lo, translateBigInt(translateHiAndLo(hi,
\* lo)) is (hi, lo).
C11_RoundTrip ==
    /\ (xl.from = "int" /\ IsMagnitude128(xl.i)) =>
          /\ xl.pc # "panic"
          /\ Len(xl.hi) = WordBytes
          /\ Len(xl.lo) = WordBytes
          /\ xl.hi \o xl.lo = PadLeft(xl.i.mag, 2 * WordBytes)
          /\ xl.pc = "done" => xl.back = xl.i
    /\ (xl.from = "words" /\ xl.pc # "joined") =>
          /\ xl.pc = "done"
          /\ xl.hi2 = xl.hi
          /\ xl.lo2 = xl.lo

\* 2^128 - 1 has been split into (2^64 - 1, 2^64 - 1) and joined again.
C11_Witness ==
    /\ xl.pc = "done"
    /\ xl.from = "int"
    /\ xl.i = BigInt(FALSE, Ones(2 * WordBytes))
    /\ xl.hi = Ones(WordBytes)
    /\ xl.lo = Ones(WordBytes)
    /\ xl.back = xl.i

(***************************************************************************)
(* Properties of the app node's keys and addresses.                        *)
(***************************************************************************)
KeyOps == {"CreateKey", "RecoverKey"}

\* The key command of op exited zero or said that the key already exists.
KeyCommandAccepted == op.exec.err = NilErr \/ Contains(op.exec.stderr, AlreadyExistsText)

\* op is a CreateKey that directly follows a successful CreateKey of the same
\* name.
SecondCreate ==
    /\ prevOp.fn = "CreateKey"
    /\ prevOp.err = NilErr
    /\ op.fn = "CreateKey"
    /\ op.keyName = prevOp.keyName

\* The rule shared by CreateKey and RecoverKey.
KeyRule ==
    (op.fn \in KeyOps) =>
        /\ KeyCommandAccepted => op.err = NilErr
        /\ ~KeyCommandAccepted => op.err = op.exec.err

\* C12 as stated: CreateKey and RecoverKey succeed when the key command exits
\* zero or fails saying the key already exists, and return the command's
\* error otherwise; and a CreateKey that directly follows a successful
\* CreateKey of the same name never fails.
C12_SecondCreateNeverFails ==
    /\ KeyRule
    /\ SecondCreate => op.err = NilErr

\* C12, amended: the same rule; and a CreateKey that directly follows a
\* successful CreateKey of the same name finds the key in place and does not
\* fail on that account: it fails only with the error of a command that
\* failed for a reason other than the key's existence.
C12_SecondCreateFailsOnlyOtherwise ==
    /\ KeyRule
    /\ SecondCreate =>
          /\ volume.wallets[KeyPath(op.keyName)] # NoWallet
          /\ op.err # NilErr =>
                /\ op.err = op.exec.err
                /\ ~Contains(op.exec.stderr, AlreadyExistsText)

\* A second CreateKey whose command refused to overwrite the key succeeded.
C12_Witness ==
    /\ SecondCreate
    /\ op.exec.err = ExitErr
    /\ Contains(op.exec.stderr, AlreadyExistsText)
    /\ op.err = NilErr

\* op is a resolver of the name that a successful RecoverKey has just
\* recovered.
ResolveAfterRecover ==
    /\ prevOp.fn = "RecoverKey"
    /\ prevOp.err = NilErr
    /\ op.fn \in Resolvers
    /\ op.keyName = prevOp.keyName

\* C13: after RecoverKey(name, mnemonic) has succeeded, GetAddress and
\* GetAddressBech32m of the same name, when their listing command exits zero,
\* return an address and not "address not found"; and a RecoverKey of the
\* same name and mnemonic that directly follows a successful one leaves the
\* stored key unchanged and, when its command is accepted, succeeds.
C13_RecoverThenResolve ==
    /\ (ResolveAfterRecover /\ op.exec.err = NilErr) =>
          /\ op.err = NilErr
          /\ op.out # ""
    /\ ( /\ prevOp.fn = "RecoverKey"
         /\ prevOp.err = NilErr
         /\ op.fn = "RecoverKey"
         /\ op.keyName = prevOp.keyName
         /\ op.mnemonic = prevOp.mnemonic ) =>
          /\ volume.wallets[KeyPath(op.keyName)] # NoWallet
          /\ KeyCommandAccepted => op.err = NilErr

\* Lines of the listing of op that have at least three fields and the key's
\* name in the second.
MatchingLines ==
    LET lines == SplitLines(op.exec.stdout)
    IN  { k \in 1..Len(lines) :
             /\ Len(Fields(lines[k])) >= 3
             /\ Fields(lines[k])[2] = op.keyName }

\* C14: a resolver returns the third field of the first line of the listing
\* that has at least three whitespace-separated fields and the key's name in
\* the second; shorter lines are passed over; without such a line the result
\* is "address not found"; when the listing command fails its error is the
\* result.
C14_ResolveAddress ==
    (op.fn \in Resolvers /\ op.pc = "done") =>
        IF op.exec.err # NilErr
        THEN op.err = op.exec.err /\ op.out = ""
        ELSE IF MatchingLines = {}
             THEN op.err = AddrNotFoundErr /\ op.out = ""
             ELSE LET lines == SplitLines(op.exec.stdout)
                      k == CHOOSE k \in MatchingLines : \A j \in MatchingLines : k <= j
                  IN  /\ op.err = NilErr
                      /\ op.out = Fields(lines[k])[3]

\* A two-field line naming the key was passed over and the next line's
\* address returned.
C14_Witness ==
    /\ op.pc = "done"
    /\ op.fn = "GetAddressBech32m"
    /\ op.keyName = "alice"
    /\ op.exec.stdout = Row(<<"0", "alice">>) \o Row(<<"1", "alice", "addrA">>)
    /\ op.out = "addrA"
    /\ op.err = NilErr

(***************************************************************************)
(* Properties of GenerateGenesisFile.                                      *)
(***************************************************************************)
\* C15: GenerateGenesisFile calls, in this order, the write of the
\* validators, the write of the allocations, the genesis command and the read
\* of the genesis; the first call that fails ends the operation with that
\* call's error: after a failed write the command is not run (after a failed
\* validators write the allocations are not written), and after a failed
\* command the genesis is not read and the error returned is the command's.
C15_GenesisSequence ==
    (op.fn = "GenerateGenesisFile") =>
        /\ IsPrefix(op.trace, GenSteps)
        /\ op.err # NilErr => op.pc = "done"
        /\ (op.pc = "done" /\ op.err = NilErr) => op.trace = GenSteps
        /\ (op.err # NilErr /\ op.err # MarshalErr) =>
              /\ op.trace # << >>
              /\ op.wraps = GenWraps(op.trace[Len(op.trace)])
        /\ op.err = MarshalErr => op.trace = << >>
        /\ op.err = WriteErr =>
              /\ op.trace \in { <<"validators">>, <<"validators", "allocations">> }
              /\ "generate" \notin Range(op.trace)
        /\ op.exec.err # NilErr =>
              /\ op.trace = <<"validators", "allocations", "generate">>
              /\ "read" \notin Range(op.trace)
              /\ op.err = op.exec.err
        /\ op.err = ReadErr => op.trace = GenSteps

\* The genesis command failed after both writes, and its error came back.
C15_Witness ==
    /\ op.fn = "GenerateGenesisFile"
    /\ op.pc = "done"
    /\ op.exec.err = ExitErr
    /\ op.err = ExitErr
    /\ op.trace = <<"validators", "allocations", "generate">>
    /\ volume.files["allocations.csv"] # << >>
    /\ volume.files["genesis.json"] = << >>

(***************************************************************************)
(* Properties of the cached host ports.                                    *)
(***************************************************************************)
\* C16: once a node's cached host ports have been assigned, no operation on
\* the node changes them.
C16_PortsWriteOnce ==
    [][ \A k \in NodeKinds :
           /\ containers[k].hostGRPCPort # "" =>
                 containers'[k].hostGRPCPort = containers[k].hostGRPCPort
           /\ containers[k].hostRPCPort # "" =>
                 containers'[k].hostRPCPort = containers[k].hostRPCPort ]_vars

(***************************************************************************)
(* Properties of PollForAck: entry test, height errors, waiting, skipping. *)
(***************************************************************************)
\* C17: a call with maxHeight < startHeight panics at the entry test, before
\* any call of chain.Height or chain.Acknowledgements, and returns neither an
\* acknowledgement nor an error value.
C17_BadRangePanics ==
    (maxHeight < startHeight /\ pc # "entry") =>
        /\ pc = "panic"
        /\ ret.kind = "panic"
        /\ retAt = "L38"
        /\ lastCall = NoCall
        /\ fetchedAt = {}

\* The call panicked although the ledger had blocks to offer.
C17_Witness ==
    /\ pc = "panic"
    /\ maxHeight < startHeight
    /\ chainHeight >= startHeight
    /\ HasMatch(chainAcks[startHeight], TargetPacket)

\* The latest accessor call was a chain.Height that returned an error.
HeightReadFailed == lastCall.fn = "Height" /\ lastCall.err # NilErr

\* C18: when chain.Height returns an error the call has returned exactly that
\* error, from the return statement that follows the read, whatever fetch
\* error was remembered; and a call that has returned makes no further step,
\* so no further accessor call.
C18_HeightErrorAborts ==
    /\ [](HeightReadFailed =>
             /\ pc = "done"
             /\ retAt = "L48"
             /\ ret.kind = "err"
             /\ ret.err = lastCall.err
             /\ ret.err.kind \notin {"fetch", "notfound"})
    /\ [][pc = "done" => (pc' = "done" /\ lastCall' = lastCall /\ ret' = ret)]_vars

\* A height read failed while a fetch error was remembered.
C18_Witness ==
    /\ HeightReadFailed
    /\ pc = "done"
    /\ lastErr # NilErr
    /\ ret.err # lastErr

\* C19: the step taken when the cursor is above the height just read leaves
\* the cursor and the remembered error as they are, makes no fetch, returns
\* nothing, and leads back to the top of the loop with the loop condition
\* still true, where the next thing done is a height read.
C19_WaitKeepsBudget ==
    [][ (pc = "check" /\ cursor > curHeight /\ pc' # pc) =>
           /\ cursor' = cursor
           /\ lastErr' = lastErr
           /\ fetchedAt' = fetchedAt
           /\ failedAt' = failedAt
           /\ lastCall' = lastCall
           /\ ret' = NoRet
           /\ pc' = "loop"
           /\ cursor' <= maxHeight ]_vars

\* Back at the top of the loop after a wait, a fetch error still remembered.
C19_Witness ==
    /\ pc = "loop"
    /\ lastCall = HeightCall(NilErr)
    /\ cursor > chainHeight
    /\ lastErr # NilErr
    /\ ret = NoRet

Exhausted == retAt \in {"L69", "L71"}

Highest(S) == CHOOSE h \in S : \A g \in S : g <= h

C22_FirstMatchWins ==
    ret.kind = "ack" =>
        /\ pc = "done"
        /\ retAt = "L62"
        /\ lastCall.fn = "Acknowledgements"
        /\ lastCall.err = NilErr
        /\ InRange(lastCall.at)
        /\ MatchAt(lastCall.at)
        /\ \E i \in 1..Len(chainAcks[lastCall.at]) :
              /\ PacketEqual(TargetPacket, chainAcks[lastCall.at][i].packet)
              /\ \A j \in 1..(i - 1) :
                    ~PacketEqual(TargetPacket, chainAcks[lastCall.at][j].packet)
              /\ ret.ack = chainAcks[lastCall.at][i]
        /\ \A g \in Heights :
              (InRange(g) /\ g < lastCall.at /\ MatchAt(g)) => g \in failedAt

(***************************************************************************)
(* Properties of the send pipeline: the node's fields and the return       *)
(* address of a cross-ledger send.                                         *)
(***************************************************************************)
\* A SendIBCTransfer call whose dial succeeded.
IBCDialed(c) ==
    /\ calls[c].kind = "SendIBCTransfer"
    /\ calls[c].pc # "idle"
    /\ calls[c].err # DialErr

\* C23: no step of SendFunds or SendIBCTransfer, succeeding or failing at any
\* stage, changes a field of a client node: every node keeps the fields it was
\* constructed with, so whether a call is refused for a missing address string
\* or reaches the planner follows from the node as constructed, whatever the
\* other calls on that node did.
C23_PipelineRetainsNoState ==
    /\ [][nodes' = nodes]_vars
    /\ [](\A n \in Nodes : nodes[n] = NodeFields(n))
    /\ [](\A c \in Calls :
            IBCDialed(c) =>
               /\ calls[c].err = NoAddrErr
                     => NodeFields(calls[c].node).addrString = ""
               /\ calls[c].invoked # << >>
                     => NodeFields(calls[c].node).addrString # "")

\* C23 witness: on the node with a cached address, one call failed at a remote
\* stage and a SendIBCTransfer call then ran all four stages and returned
\* without error, the node's fields being those it was constructed with.
C23_Witness ==
    \E c, d \in Calls :
        /\ c # d
        /\ calls[c].node = calls[d].node
        /\ calls[c].pc = "done"
        /\ calls[c].err \in { StageErr(k) : k \in 1..Len(Stages) }
        /\ calls[d].kind = "SendIBCTransfer"
        /\ ReturnedOk(d)
        /\ nodes[calls[d].node] = NodeFields(calls[d].node)
        /\ nodes[calls[d].node].addrString # ""

\* The call is past its entry test.
InCall == pc \notin {"entry", "panic"}

\* A step in which chain.Acknowledgements is called (and returns).
FetchStep == pc = "fetch" /\ pc' # "fetch"

\* C24: in a call past its entry test the cursor stays within
\* startHeight..maxHeight + 1 and moves only by +1; an acknowledgement fetch
\* is made at the cursor's height, only when that height is at most the ledger
\* height read in the same iteration, at a height of [startHeight, maxHeight]
\* above every height fetched before.
C24_CursorInvariant ==
    /\ [](InCall => (startHeight <= cursor /\ cursor <= maxHeight + 1))
    /\ [][(InCall /\ cursor' # cursor) => cursor' = cursor + 1]_vars
    /\ [][FetchStep =>
             /\ lastCall'.fn = "Acknowledgements"
             /\ lastCall'.at = cursor
             /\ cursor <= curHeight
             /\ InRange(cursor)
             /\ \A g \in fetchedAt : g < cursor]_vars

\* C25: for every maxHeight, the largest height included, the increment of the
\* cursor after the scan of height maxHeight yields a value above maxHeight:
\* the loop condition is then false and no height is scanned a second time.
C25_CursorDoesNotWrap ==
    [][(InCall /\ cursor = maxHeight /\ cursor' # cursor)
          => /\ cursor' > maxHeight
             /\ ~LoopCond(cursor', maxHeight)]_vars

\* C26: a SendIBCTransfer call on a node whose cached address string is empty
\* invokes no remote stage and, once returned, has returned an error (the
\* missing-address error when the dial succeeded); on a node whose address
\* string is cached, the withdrawal handed to the planner carries that string
\* as its return address and the caller's channel as its source channel.
C26_ReturnAddressRequired ==
    \A c \in Calls :
        (calls[c].kind = "SendIBCTransfer" /\ calls[c].pc # "idle") =>
            LET cached == NodeFields(calls[c].node).addrString
            IN  /\ cached = "" =>
                      /\ calls[c].invoked = << >>
                      /\ calls[c].withdrawal = NoWithdrawal
                      /\ calls[c].pc \in {"dialed", "done"}
                      /\ calls[c].pc = "done"
                            => calls[c].err \in {DialErr, NoAddrErr}
                      /\ (calls[c].pc = "done" /\ calls[c].err # DialErr)
                            => calls[c].err = NoAddrErr
                /\ (cached # "" /\ "plan" \in Range(calls[c].invoked)) =>
                      /\ calls[c].withdrawal.ReturnAddress = cached
                      /\ calls[c].withdrawal.SourceChannel = calls[c].channelID
                      /\ calls[c].channelID \in
                            { in.channelID : in \in IBCInputs }
                /\ cached # "" => calls[c].err # NoAddrErr

\* C26 witness: one call was refused for the missing address string without
\* invoking a stage, and another, on the node with a cached address string,
\* handed the planner a withdrawal with that string and the caller's channel.
C26_Witness ==
    \E c, d \in Calls :
        /\ calls[c].kind = "SendIBCTransfer"
        /\ calls[c].pc = "done"
        /\ calls[c].err = NoAddrErr
        /\ calls[c].invoked = << >>
        /\ calls[d].kind = "SendIBCTransfer"
        /\ "plan" \in Range(calls[d].succeeded)
        /\ calls[d].withdrawal.ReturnAddress = "penumbra1alice"
        /\ calls[d].withdrawal.SourceChannel = "channel-1"

====
